---- MODULE Spec2Model ----
(***************************************************************************)
(* Model of the configuration store of src/config.go: the Config store     *)
(* (map guarded by one RWMutex, bound to one file and one ConfigType), the *)
(* two file codecs, and the typed accessors Key[T] / TimeKey of the        *)
(* struct-based key file (src/config.go lines 315-445).                    *)
(*                                                                         *)
(* Representation choices.                                                 *)
(*  - An interface{} value is a record with a kind, which is the reflect   *)
(*    kind of its dynamic type ("struct" is time.Time), "absent" marks a   *)
(*    key that is not in the map.                                          *)
(*  - A float64 is held as a count of halves (5 is 2.5, 130 is 65.0).      *)
(*  - The file is a sequence of chunks, one per Write call: a line         *)
(*    "key=text\n", a whole JSON document, or a hole (the zero bytes left  *)
(*    by a write past the end of a truncated file).  File offsets count    *)
(*    chunks.                                                              *)
(***************************************************************************)
EXTENDS Integers, Sequences, FiniteSets, TLC

VARIABLES
    Config,   \* c.Config
    Type,     \* c.Type
    asked,    \* the ConfigType LoadConfigFile was called with
    disk,     \* the file at c.Filepath
    mu,       \* c.mu: 0 when free, else the caller holding the write lock
    pc,       \* where each caller is in SaveFile
    off,      \* the offset of each caller's file descriptor
    todo,     \* the keys each caller's range loop has still to visit
    writer,   \* the branch each caller's switch took: "line" or "json"
    werr,     \* the err each caller's SaveFile is about to return
    iofail,   \* whether a system call of the caller's SaveFile failed
    quiet,    \* whether the caller's SaveFile has run alone so far
    lastPut,  \* per key, the value loaded or last put
    hist,     \* the maps the store has held
    calls,    \* how many Put and SaveFile calls were made
    ret       \* what the last call returned

vars == <<Config, Type, asked, disk, mu, pc, off, todo, writer, werr, iofail,
          quiet, lastPut, hist, calls, ret>>

---------------------------------------------------------------------------
(* Bounds *)

\* number of threads that call SaveFile concurrently
NumCallers == 2
\* largest ConfigType value a caller passes; values above Line are unrecognized
MaxConfigType == 2
\* largest magnitude (in halves) of a float64 the decimal parser is tried on
MaxFloat == 130
\* number of Put calls in a concurrent run
MaxPuts == 2
\* number of SaveFile calls in a concurrent run
MaxSaves == 2

Callers == 1..NumCallers
Keys == {"a", "b"}

---------------------------------------------------------------------------
(* ConfigType *)

Json == 0
Line == 1
ConfigTypes == 0..MaxConfigType

---------------------------------------------------------------------------
(* interface{} values *)

\* s: the string; n: the int, the float64 in halves or the time.Time;
\* b: the bool; q: the elements of the slice; m: the entries of the map, a
\* sequence of [name, v] ordered by name
Value(kind, s, n, b, q, m) == [kind |-> kind, s |-> s, n |-> n, b |-> b, q |-> q, m |-> m]
S(s) == Value("string", s, 0, FALSE, <<>>, <<>>)
B(b) == Value("bool", "", 0, b, <<>>, <<>>)
I(n) == Value("int", "", n, FALSE, <<>>, <<>>)
F(h) == Value("float64", "", h, FALSE, <<>>, <<>>)
SL(q) == Value("slice", "", 0, FALSE, q, <<>>)
MP(m) == Value("map", "", 0, FALSE, <<>>, m)
TM(t) == Value("struct", "", t, FALSE, <<>>, <<>>)
Absent == Value("absent", "", 0, FALSE, <<>>, <<>>)

EmptyConfig == [k \in Keys |-> Absent]
Present(c) == {k \in Keys : c[k].kind # "absent"}

\* time.Time values: the zero Time and two instants
ZeroTime == 0
Times == {ZeroTime, 1, 2}

\* values a caller passes to the untyped Put
PutVals == {S("false"), B(TRUE), I(65), SL(<<I(65)>>)}

---------------------------------------------------------------------------
(* Text conversions *)

Abs(n) == IF n < 0 THEN 0 - n ELSE n

\* strconv.FormatBool
FormatBool(b) == IF b THEN "true" ELSE "false"

\* strconv.ParseBool
ParseBool(s) ==
    IF s \in {"1", "t", "T", "TRUE", "true", "True"} THEN [ok |-> TRUE, val |-> TRUE]
    ELSE IF s \in {"0", "f", "F", "FALSE", "false", "False"} THEN [ok |-> TRUE, val |-> FALSE]
    ELSE [ok |-> FALSE, val |-> FALSE]

\* fmt %v of a float64 (shortest decimal), for a value held in halves
FormatFloat(h) ==
    (IF h < 0 THEN "-" ELSE "") \o ToString(Abs(h) \div 2)
        \o (IF Abs(h) % 2 = 1 THEN ".5" ELSE "")

FloatRange == (0 - MaxFloat)..MaxFloat
FloatTexts == {FormatFloat(h) : h \in FloatRange}

\* strconv.ParseFloat(s, 64) on the decimal texts of FloatRange
ParseFloat(s) ==
    IF s \in FloatTexts
    THEN [ok |-> TRUE, val |-> CHOOSE h \in FloatRange : FormatFloat(h) = s]
    ELSE [ok |-> FALSE, val |-> 0]

\* fmt.Sprintf("%v", v) for the kinds writeFileLine lets through
Sprint(v) ==
    CASE v.kind = "string" -> v.s
      [] v.kind = "bool" -> FormatBool(v.b)
      [] v.kind = "int" -> ToString(v.n)
      [] v.kind = "float64" -> FormatFloat(v.n)

\* time.Time.MarshalText (RFC 3339)
MarshalText(t) ==
    CASE t = ZeroTime -> "0001-01-01T00:00:00Z"
      [] t = 1 -> "2020-01-01T00:00:00Z"
      [] t = 2 -> "2021-06-15T12:30:00Z"

\* time.Time.UnmarshalText
UnmarshalText(s) ==
    IF \E t \in Times : MarshalText(t) = s
    THEN [ok |-> TRUE, val |-> CHOOSE t \in Times : MarshalText(t) = s]
    ELSE [ok |-> FALSE, val |-> ZeroTime]

---------------------------------------------------------------------------
(* JSON codec: encoding/json on map[string]interface{} *)

\* a JSON value: j is its JSON type, the other fields as in Value
JSONValue(j, s, n, b, q, m) == [j |-> j, s |-> s, n |-> n, b |-> b, q |-> q, m |-> m]
\* a member the JSON object does not have
JAbsent == JSONValue("absent", "", 0, FALSE, <<>>, <<>>)

RECURSIVE ToJSON(_)
\* json.Marshal of one value: every Go number becomes a JSON number, a
\* time.Time marshals (MarshalJSON) to its RFC 3339 string
ToJSON(v) ==
    CASE v.kind = "string" -> JSONValue("string", v.s, 0, FALSE, <<>>, <<>>)
      [] v.kind = "bool" -> JSONValue("bool", "", 0, v.b, <<>>, <<>>)
      [] v.kind = "int" -> JSONValue("number", "", 2 * v.n, FALSE, <<>>, <<>>)
      [] v.kind = "float64" -> JSONValue("number", "", v.n, FALSE, <<>>, <<>>)
      [] v.kind = "struct" -> JSONValue("string", MarshalText(v.n), 0, FALSE, <<>>, <<>>)
      [] v.kind = "slice" ->
            JSONValue("array", "", 0, FALSE, [i \in DOMAIN v.q |-> ToJSON(v.q[i])], <<>>)
      [] v.kind = "map" ->
            JSONValue("object", "", 0, FALSE, <<>>,
                      [i \in DOMAIN v.m |-> [name |-> v.m[i].name, v |-> ToJSON(v.m[i].v)]])
      [] v.kind = "absent" -> JAbsent

RECURSIVE FromJSON(_)
\* json.Decoder.Decode into interface{}: numbers become float64
FromJSON(x) ==
    CASE x.j = "string" -> S(x.s)
      [] x.j = "bool" -> B(x.b)
      [] x.j = "number" -> F(x.n)
      [] x.j = "array" -> SL([i \in DOMAIN x.q |-> FromJSON(x.q[i])])
      [] x.j = "object" ->
            MP([i \in DOMAIN x.m |-> [name |-> x.m[i].name, v |-> FromJSON(x.m[i].v)]])
      [] x.j = "absent" -> Absent

\* the JSON object json.Encoder.Encode writes for the map, member by member
EncodeJSON(c) == [k \in Keys |-> ToJSON(c[k])]

\* the map json.Decoder.Decode fills from a JSON object
DecodeJSON(doc) == [k \in Keys |-> FromJSON(doc[k])]

---------------------------------------------------------------------------
(* The file: a sequence of chunks *)

NoDoc == EncodeJSON(EmptyConfig)
LineChunk(k, v) == [c |-> "line", k |-> k, t |-> Sprint(v), doc |-> NoDoc]
JSONChunk(c) == [c |-> "json", k |-> "", t |-> "", doc |-> EncodeJSON(c)]
Hole == [c |-> "hole", k |-> "", t |-> "", doc |-> NoDoc]

NoFile == [exists |-> FALSE, data |-> <<>>]
\* os.Create: the file exists and is empty
CreateFile == [exists |-> TRUE, data |-> <<>>]

\* File.Write of one chunk at offset o; a write past the end leaves a hole
WriteAt(data, o, chunk) ==
    IF o < Len(data) THEN [data EXCEPT ![o + 1] = chunk]
    ELSE data \o [i \in 1..(o - Len(data)) |-> Hole] \o <<chunk>>

\* the reflect kinds writeFileLine writes; every other kind is skipped
LineKinds == {"int", "float64", "string", "bool"}

RECURSIVE ParseLines(_, _, _)
\* the scanner loop of parseFileLine from chunk i on.  A line of the model
\* never starts with '#' and its key holds no '=', so SplitN yields (k, t);
\* a JSON document is one line without '=' and is skipped; a line that
\* follows a hole has the hole's zero bytes in its key, which is then none
\* of Keys.
ParseLines(data, i, m) ==
    IF i > Len(data) THEN m
    ELSE LET ch == data[i]
             pf == ParseFloat(ch.t)
             afterHole == i > 1 /\ data[i - 1].c = "hole"
         IN IF ch.c = "line" /\ ~afterHole
            THEN ParseLines(data, i + 1,
                            [m EXCEPT ![ch.k] = IF pf.ok THEN F(pf.val) ELSE S(ch.t)])
            ELSE ParseLines(data, i + 1, m)

parseFileLine(data) == [m |-> ParseLines(data, 1, EmptyConfig), err |-> "nil"]

\* one Decode call: the first JSON value of the file, or an error (EOF on an
\* empty file, a syntax error on anything that is not a JSON object)
parseFileJSON(data) ==
    IF Len(data) > 0 /\ data[1].c = "json"
    THEN [m |-> DecodeJSON(data[1].doc), err |-> "nil"]
    ELSE [m |-> EmptyConfig, err |-> "decode"]

\* LoadConfigFile once os.Open has not failed with an error other than
\* not-exist: the store it returns and its error
LoadConfigFile(d, t) ==
    IF ~d.exists THEN [cfg |-> EmptyConfig, type |-> t, err |-> "nil"]
    ELSE IF t \in {Json, Line}
         THEN LET r == parseFileLine(d.data) IN [cfg |-> r.m, type |-> t, err |-> r.err]
         ELSE LET r == parseFileJSON(d.data) IN [cfg |-> r.m, type |-> Json, err |-> r.err]

---------------------------------------------------------------------------
(* Store operations on the map *)

\* a Put that replaces the map instead of adding to it
PutOp_Lossy(c, key, val) == [k \in Keys |-> IF k = key THEN val ELSE Absent]

\* c.Config[key] = val
PutOp(c, key, val) == [c EXCEPT ![key] = val]

---------------------------------------------------------------------------
(* Typed accessors: Key[T]{Key, Default}; T is the kind of Default *)

Numeric == {"int", "float64"}

ZeroValue(T) ==
    CASE T = "string" -> S("")
      [] T = "bool" -> B(FALSE)
      [] T = "int" -> I(0)
      [] T = "float64" -> F(0)
      [] T = "slice" -> SL(<<>>)
      [] T = "map" -> MP(<<>>)

\* reflect.Value.CanConvert for the kinds of the model
CanConvert(v, T) ==
    \/ v.kind = T
    \/ v.kind \in Numeric /\ T \in Numeric
    \/ v.kind = "int" /\ T = "string"

\* string(rune(n))
RuneString(n) == IF n = 65 THEN "A" ELSE "rune#" \o ToString(n)

\* reflect.Value.Convert: float to int truncates toward zero, int to string
\* yields the one-rune string
Convert(v, T) ==
    CASE v.kind = T -> v
      [] v.kind = "int" /\ T = "float64" -> F(2 * v.n)
      [] v.kind = "float64" /\ T = "int" ->
            I(IF v.n < 0 THEN 0 - (Abs(v.n) \div 2) ELSE v.n \div 2)
      [] v.kind = "int" /\ T = "string" -> S(RuneString(v.n))

\* Get as the string-based Key of lines 231-257 has it: the zero value of T
\* where the default is due
KeyGet_ZeroDefault(c, k) ==
    LET T == k.Default.kind
        v == c[k.Key]
    IN IF v.kind = "absent" THEN ZeroValue(T)
       ELSE IF v.kind = T THEN v
       ELSE IF v.kind = "bool" /\ T = "string" THEN S(FormatBool(v.b))
       ELSE IF v.kind = "string" /\ T = "bool" /\ ParseBool(v.s).ok
            THEN B(ParseBool(v.s).val)
       ELSE IF CanConvert(v, T) THEN Convert(v, T)
       ELSE ZeroValue(T)

\* Get without the bool and string cases of the type switch
KeyGet_NoBridge(c, k) ==
    LET T == k.Default.kind
        v == c[k.Key]
    IN IF v.kind = "absent" THEN k.Default
       ELSE IF v.kind = T THEN v
       ELSE IF CanConvert(v, T) THEN Convert(v, T)
       ELSE k.Default

\* Key[T].Get
KeyGet(c, k) ==
    LET T == k.Default.kind
        v == c[k.Key]
    IN IF v.kind = "absent" THEN k.Default
       ELSE IF v.kind = T THEN v
       ELSE IF v.kind = "bool" /\ T = "string" THEN S(FormatBool(v.b))
       ELSE IF v.kind = "string" /\ T = "bool" /\ ParseBool(v.s).ok
            THEN B(ParseBool(v.s).val)
       ELSE IF CanConvert(v, T) THEN Convert(v, T)
       ELSE k.Default

\* GetErr without the reflect conversion
KeyGetErr_NoConvert(c, k) ==
    LET T == k.Default.kind
        v == c[k.Key]
    IN IF v.kind = "absent" THEN [val |-> ZeroValue(T), err |-> "ErrKeyNotFound"]
       ELSE IF v.kind = T THEN [val |-> v, err |-> "nil"]
       ELSE IF v.kind = "bool" /\ T = "string"
            THEN [val |-> S(FormatBool(v.b)), err |-> "nil"]
       ELSE IF v.kind = "string" /\ T = "bool" /\ ParseBool(v.s).ok
            THEN [val |-> B(ParseBool(v.s).val), err |-> "nil"]
       ELSE [val |-> ZeroValue(T), err |-> "cast"]

\* Key[T].GetErr
KeyGetErr(c, k) ==
    LET T == k.Default.kind
        v == c[k.Key]
    IN IF v.kind = "absent" THEN [val |-> ZeroValue(T), err |-> "ErrKeyNotFound"]
       ELSE IF v.kind = T THEN [val |-> v, err |-> "nil"]
       ELSE IF v.kind = "bool" /\ T = "string"
            THEN [val |-> S(FormatBool(v.b)), err |-> "nil"]
       ELSE IF v.kind = "string" /\ T = "bool" /\ ParseBool(v.s).ok
            THEN [val |-> B(ParseBool(v.s).val), err |-> "nil"]
       ELSE IF CanConvert(v, T) THEN [val |-> Convert(v, T), err |-> "nil"]
       ELSE [val |-> ZeroValue(T), err |-> "cast"]

\* Key[T].Put
KeyPut(c, k, v) == PutOp(c, k.Key, v)

\* Sync with the test on err inverted
KeySync_Inverted(c, k) == IF KeyGetErr(c, k).err = "nil" THEN KeyPut(c, k, k.Default) ELSE c

\* Key[T].Sync
KeySync(c, k) == IF KeyGetErr(c, k).err # "nil" THEN KeyPut(c, k, k.Default) ELSE c

\* the Key[string]{k.Key, ""} a TimeKey reads through
StringKey(tk) == [Key |-> tk.Key, Default |-> S("")]

\* TimeKey.Get
TimeKeyGet(c, tk) ==
    LET r == KeyGetErr(c, StringKey(tk))
    IN IF r.err # "nil" THEN tk.Default
       ELSE IF ~UnmarshalText(r.val.s).ok THEN tk.Default
       ELSE UnmarshalText(r.val.s).val

\* TimeKey.GetErr
TimeKeyGetErr(c, tk) ==
    LET r == KeyGetErr(c, StringKey(tk))
    IN IF r.err # "nil" THEN [val |-> ZeroTime, err |-> r.err]
       ELSE IF ~UnmarshalText(r.val.s).ok THEN [val |-> ZeroTime, err |-> "parse"]
       ELSE [val |-> UnmarshalText(r.val.s).val, err |-> "nil"]

\* TimeKey.Put
TimeKeyPut(c, tk, t) == PutOp(c, tk.Key, TM(t))

---------------------------------------------------------------------------
(* Inputs *)

\* the accessors a caller declares: one default, not the zero value, per T
Defaults == {S("dflt"), B(TRUE), I(65), F(5), SL(<<I(65)>>), MP(<<[name |-> "n", v |-> B(TRUE)]>>)}
Accessors == {[Key |-> k, Default |-> d] : k \in Keys, d \in Defaults}
\* the values of kind T a caller passes to Key[T].Put
TypedVals(T) == {v \in Defaults \cup PutVals \cup {B(FALSE)} : v.kind = T}
TimeKeys == {[Key |-> k, Default |-> 1] : k \in Keys}

\* the files found at Filepath when the program starts
InitDisks ==
    { NoFile,
      [exists |-> TRUE, data |-> <<LineChunk("a", B(TRUE)), LineChunk("b", F(5))>>],
      [exists |-> TRUE,
       data |-> <<JSONChunk([EmptyConfig EXCEPT !["a"] = TM(2), !["b"] = SL(<<I(65)>>)])>>] }

---------------------------------------------------------------------------
(* State *)

NoAcc == [Key |-> "", Default |-> Absent]
\* What a call returned: val and err.  pre is the map the call found; t is
\* the ConfigType passed to LoadConfigFile and was the Type of the store the
\* program had before it; saved tells that the call before
\* a LoadConfigFile was a SaveFile that returned nil with no failed system
\* call; w is the writer a SaveFile used, io whether one of its system calls
\* failed, quiet whether it ran with no other call from start to end.
Ret(op) == [op |-> op, acc |-> NoAcc, val |-> Absent, err |-> "nil",
            pre |-> EmptyConfig, t |-> 0, was |-> 0, saved |-> FALSE,
            w |-> "", io |-> FALSE, quiet |-> FALSE]

Idle == \A p \in Callers : pc[p] = "idle"

store == <<Config, Type, asked>>
savers == <<mu, pc, off, todo, writer, werr, iofail>>
ghost == <<quiet, lastPut, hist, calls>>

Init ==
    /\ disk \in InitDisks
    /\ asked \in ConfigTypes
    /\ Config = LoadConfigFile(disk, asked).cfg
    /\ Type = LoadConfigFile(disk, asked).type
    /\ ret = [Ret("LoadConfigFile") EXCEPT !.err = LoadConfigFile(disk, asked).err,
                                           !.t = asked]
    /\ mu = 0
    /\ pc = [p \in Callers |-> "idle"]
    /\ off = [p \in Callers |-> 0]
    /\ todo = [p \in Callers |-> {}]
    /\ writer = [p \in Callers |-> ""]
    /\ werr = [p \in Callers |-> "nil"]
    /\ iofail = [p \in Callers |-> FALSE]
    /\ quiet = [p \in Callers |-> FALSE]
    /\ lastPut = Config
    /\ hist = {Config}
    /\ calls = [put |-> 0, save |-> 0]

---------------------------------------------------------------------------
(* Store actions.  A call that takes the lock waits until mu is free. *)

\* LoadConfigFile(Filepath, t): the program replaces its store by the one
\* returned (a store is returned with a decode error too)
Load(t) ==
    /\ Idle
    /\ LET r == LoadConfigFile(disk, t)
       IN /\ Config' = r.cfg
          /\ Type' = r.type
          /\ ret' = [Ret("LoadConfigFile") EXCEPT
                        !.err = r.err, !.t = t, !.was = Type, !.pre = Config,
                        !.saved = (ret.op = "SaveFile" /\ ret.err = "nil" /\ ~ret.io)]
    /\ asked' = t
    /\ UNCHANGED <<disk, savers>>

\* LoadConfigFile when os.Open fails with an error other than not-exist:
\* nil and the error are returned, the program keeps the store it had
LoadOpenError ==
    /\ Idle
    /\ disk.exists
    /\ ret' = [Ret("LoadConfigFile") EXCEPT !.err = "open"]
    /\ UNCHANGED <<store, disk, savers>>

\* Config.Get
Get(key) ==
    /\ mu = 0
    /\ ret' = [Ret("Get") EXCEPT !.val = Config[key], !.pre = Config]
    /\ UNCHANGED <<store, disk, savers>>

\* Config.Put
Put(key, val) ==
    /\ mu = 0
    /\ Config' = PutOp(Config, key, val)
    /\ ret' = Ret("Put")
    /\ UNCHANGED <<Type, asked, disk, savers>>

\* Key[T].Get
KeyGetCall(k) ==
    /\ mu = 0
    /\ ret' = [Ret("Key.Get") EXCEPT !.acc = k, !.val = KeyGet(Config, k), !.pre = Config]
    /\ UNCHANGED <<store, disk, savers>>

\* Key[T].GetErr
KeyGetErrCall(k) ==
    /\ mu = 0
    /\ ret' = [Ret("Key.GetErr") EXCEPT !.acc = k, !.val = KeyGetErr(Config, k).val,
                                         !.err = KeyGetErr(Config, k).err, !.pre = Config]
    /\ UNCHANGED <<store, disk, savers>>

\* Key[T].Put
KeyPutCall(k, v) ==
    /\ mu = 0
    /\ Config' = KeyPut(Config, k, v)
    /\ ret' = [Ret("Key.Put") EXCEPT !.acc = k, !.val = v]
    /\ UNCHANGED <<Type, asked, disk, savers>>

\* Key[T].Sync, run by the only caller of the store
KeySyncCall(k) ==
    /\ mu = 0
    /\ Config' = KeySync(Config, k)
    /\ ret' = [Ret("Key.Sync") EXCEPT !.acc = k, !.pre = Config]
    /\ UNCHANGED <<Type, asked, disk, savers>>

\* TimeKey.Get
TimeKeyGetCall(tk) ==
    /\ mu = 0
    /\ ret' = [Ret("TimeKey.Get") EXCEPT !.acc = [Key |-> tk.Key, Default |-> TM(tk.Default)],
                                          !.val = TM(TimeKeyGet(Config, tk)), !.pre = Config]
    /\ UNCHANGED <<store, disk, savers>>

\* TimeKey.GetErr
TimeKeyGetErrCall(tk) ==
    /\ mu = 0
    /\ ret' = [Ret("TimeKey.GetErr") EXCEPT
                   !.acc = [Key |-> tk.Key, Default |-> TM(tk.Default)],
                   !.val = TM(TimeKeyGetErr(Config, tk).val),
                   !.err = TimeKeyGetErr(Config, tk).err, !.pre = Config]
    /\ UNCHANGED <<store, disk, savers>>

\* TimeKey.Put
TimeKeyPutCall(tk, t) ==
    /\ mu = 0
    /\ Config' = TimeKeyPut(Config, tk, t)
    /\ ret' = [Ret("TimeKey.Put") EXCEPT
                   !.acc = [Key |-> tk.Key, Default |-> TM(tk.Default)], !.val = TM(t)]
    /\ UNCHANGED <<Type, asked, disk, savers>>

---------------------------------------------------------------------------
(* Config.SaveFile by caller p, one action per system call *)

\* os.Create succeeds: the file is truncated, before the lock is taken
SaveCreate(p) ==
    /\ pc[p] = "idle"
    /\ disk' = CreateFile
    /\ off' = [off EXCEPT ![p] = 0]
    /\ iofail' = [iofail EXCEPT ![p] = FALSE]
    /\ werr' = [werr EXCEPT ![p] = "nil"]
    /\ writer' = [writer EXCEPT ![p] = ""]
    /\ pc' = [pc EXCEPT ![p] = "created"]
    /\ ret' = Ret("SaveFile.create")
    /\ UNCHANGED <<store, mu, todo>>

\* os.Create fails: SaveFile returns the error
SaveCreateFail(p) ==
    /\ pc[p] = "idle"
    /\ ret' = [Ret("SaveFile") EXCEPT !.err = "create", !.io = TRUE, !.pre = Config]
    /\ UNCHANGED <<store, disk, savers>>

\* c.mu.Lock() and the switch on c.Type
SaveLock(p) ==
    /\ pc[p] = "created"
    /\ mu = 0
    /\ mu' = p
    /\ IF Type \in {Json, Line}
       THEN /\ todo' = [todo EXCEPT ![p] = Present(Config)]
            /\ writer' = [writer EXCEPT ![p] = "line"]
            /\ pc' = [pc EXCEPT ![p] = IF Present(Config) = {} THEN "ret" ELSE "line"]
            /\ UNCHANGED Type
       ELSE /\ Type' = Json
            /\ writer' = [writer EXCEPT ![p] = "json"]
            /\ pc' = [pc EXCEPT ![p] = "json"]
            /\ UNCHANGED todo
    /\ ret' = Ret("SaveFile.lock")
    /\ UNCHANGED <<Config, asked, disk, off, werr, iofail>>

\* one iteration of the range loop of writeFileLine, in any key order: a
\* value of another kind is skipped, else its line is written
SaveWriteLine(p) ==
    /\ pc[p] = "line"
    /\ \E k \in todo[p] :
          /\ todo' = [todo EXCEPT ![p] = todo[p] \ {k}]
          /\ pc' = [pc EXCEPT ![p] = IF todo[p] = {k} THEN "ret" ELSE "line"]
          /\ IF Config[k].kind \in LineKinds
             THEN /\ disk' = [disk EXCEPT !.data = WriteAt(disk.data, off[p], LineChunk(k, Config[k]))]
                  /\ off' = [off EXCEPT ![p] = off[p] + 1]
             ELSE UNCHANGED <<disk, off>>
    /\ ret' = Ret("SaveFile.write")
    /\ UNCHANGED <<store, mu, writer, werr, iofail>>

\* one iteration whose f.Write fails: the error is dropped, the loop goes on
SaveWriteLineFail(p) ==
    /\ pc[p] = "line"
    /\ \E k \in todo[p] :
          /\ Config[k].kind \in LineKinds
          /\ todo' = [todo EXCEPT ![p] = todo[p] \ {k}]
          /\ pc' = [pc EXCEPT ![p] = IF todo[p] = {k} THEN "ret" ELSE "line"]
    /\ iofail' = [iofail EXCEPT ![p] = TRUE]
    /\ ret' = Ret("SaveFile.write")
    /\ UNCHANGED <<store, disk, mu, off, writer, werr>>

\* writeFileJSON: one Encode call writes the whole document
SaveWriteJSON(p) ==
    /\ pc[p] = "json"
    /\ disk' = [disk EXCEPT !.data = WriteAt(disk.data, off[p], JSONChunk(Config))]
    /\ off' = [off EXCEPT ![p] = off[p] + 1]
    /\ pc' = [pc EXCEPT ![p] = "ret"]
    /\ ret' = Ret("SaveFile.write")
    /\ UNCHANGED <<store, mu, todo, writer, werr, iofail>>

\* writeFileJSON whose write fails: Encode returns the error
SaveWriteJSONFail(p) ==
    /\ pc[p] = "json"
    /\ werr' = [werr EXCEPT ![p] = "write"]
    /\ iofail' = [iofail EXCEPT ![p] = TRUE]
    /\ pc' = [pc EXCEPT ![p] = "ret"]
    /\ ret' = Ret("SaveFile.write")
    /\ UNCHANGED <<store, disk, mu, off, todo, writer>>

\* return err, with the deferred c.mu.Unlock() and f.Close()
SaveReturn(p) ==
    /\ pc[p] = "ret"
    /\ mu' = 0
    /\ pc' = [pc EXCEPT ![p] = "idle"]
    /\ ret' = [Ret("SaveFile") EXCEPT !.err = werr[p], !.io = iofail[p], !.w = writer[p],
                                       !.quiet = quiet[p], !.pre = Config]
    /\ UNCHANGED <<store, disk, off, todo, writer, werr, iofail>>

---------------------------------------------------------------------------
(* Specifications *)

\* One caller using the untyped and the typed interface of a loaded store
Next ==
    \/ \E t \in ConfigTypes : Load(t) /\ UNCHANGED ghost
    \/ \E k \in Keys : Get(k) /\ UNCHANGED ghost
    \/ \E k \in Keys, v \in PutVals : Put(k, v) /\ UNCHANGED ghost
    \/ \E k \in Accessors : KeyGetCall(k) /\ UNCHANGED ghost
    \/ \E k \in Accessors : KeyGetErrCall(k) /\ UNCHANGED ghost
    \/ \E k \in Accessors : \E v \in TypedVals(k.Default.kind) : KeyPutCall(k, v) /\ UNCHANGED ghost
    \/ \E k \in Accessors : KeySyncCall(k) /\ UNCHANGED ghost
    \/ \E tk \in TimeKeys : TimeKeyGetCall(tk) /\ UNCHANGED ghost
    \/ \E tk \in TimeKeys : TimeKeyGetErrCall(tk) /\ UNCHANGED ghost
    \/ \E tk \in TimeKeys : TimeKeyPutCall(tk, 2) /\ UNCHANGED ghost

Spec == Init /\ [][Next]_vars

\* One caller that loads, puts and saves; a call starts when the last one
\* has returned
NextFile ==
    \/ \E t \in ConfigTypes : Load(t) /\ UNCHANGED ghost
    \/ LoadOpenError /\ UNCHANGED ghost
    \/ \E k \in Keys, v \in PutVals : Idle /\ Put(k, v) /\ UNCHANGED ghost
    \/ \E tk \in TimeKeys : Idle /\ TimeKeyPutCall(tk, 2) /\ UNCHANGED ghost
    \/ SaveCreate(1) /\ UNCHANGED ghost
    \/ SaveCreateFail(1) /\ UNCHANGED ghost
    \/ SaveLock(1) /\ UNCHANGED ghost
    \/ SaveWriteLine(1) /\ UNCHANGED ghost
    \/ SaveWriteLineFail(1) /\ UNCHANGED ghost
    \/ SaveWriteJSON(1) /\ UNCHANGED ghost
    \/ SaveWriteJSONFail(1) /\ UNCHANGED ghost
    \/ SaveReturn(1) /\ UNCHANGED ghost

SpecFile == Init /\ [][NextFile]_vars

\* Callers that put, get and save concurrently on a store loaded from an
\* absent file; every system call succeeds
InitConc == Init /\ ~disk.exists

NextConc ==
    \/ \E k \in Keys, v \in PutVals :
          /\ calls.put < MaxPuts
          /\ Put(k, v)
          /\ lastPut' = [lastPut EXCEPT ![k] = v]
          /\ hist' = hist \cup {Config'}
          /\ quiet' = [q \in Callers |-> FALSE]
          /\ calls' = [calls EXCEPT !.put = calls.put + 1]
    \/ \E k \in Keys : Get(k) /\ UNCHANGED ghost
    \/ \E p \in Callers :
          /\ calls.save < MaxSaves
          /\ SaveCreate(p)
          /\ quiet' = [q \in Callers |-> q = p /\ Idle]
          /\ calls' = [calls EXCEPT !.save = calls.save + 1]
          /\ UNCHANGED <<lastPut, hist>>
    \/ \E p \in Callers : SaveLock(p) /\ UNCHANGED ghost
    \/ \E p \in Callers : SaveWriteLine(p) /\ UNCHANGED ghost
    \/ \E p \in Callers : SaveWriteJSON(p) /\ UNCHANGED ghost
    \/ \E p \in Callers : SaveReturn(p) /\ UNCHANGED ghost

SpecConc == InitConc /\ [][NextConc]_vars

\* the same callers on a store that is new or was loaded from a line file
InitRace == Init /\ (disk.exists => disk.data[1].c = "line")

SpecRace == InitRace /\ [][NextConc]_vars

---------------------------------------------------------------------------
(* Claims on the typed accessors (Spec) *)

KeyKind == ret.acc.Default.kind
Found == ret.pre[ret.acc.Key]

C4_SyncIdempotent ==
    ret.op = "Key.Sync" =>
        /\ KeyGetErr(Config, ret.acc).err = "nil"
        /\ KeySync(Config, ret.acc) = Config

\* a Sync that replaced a value GetErr could not cast by the default
C4_Witness ==
    /\ ret.op = "Key.Sync"
    /\ Found.kind # "absent"
    /\ Config # ret.pre
    /\ Config[ret.acc.Key] = ret.acc.Default

BoolLiterals == {"1", "t", "T", "TRUE", "true", "True", "0", "f", "F", "FALSE", "false", "False"}

C6_TimePutReadable ==
    ret.op = "TimeKey.Put" =>
        LET tk == [Key |-> ret.acc.Key, Default |-> ret.acc.Default.n]
        IN /\ Config[tk.Key] = S(MarshalText(ret.val.n))
           /\ KeyGetErr(Config, StringKey(tk)).err = "nil"
           /\ TimeKeyGetErr(Config, tk) = [val |-> ret.val.n, err |-> "nil"]

---------------------------------------------------------------------------
(* Claims on the file (SpecFile) *)

JSONKinds == {"string", "bool", "int", "float64", "slice", "map"}

\* C2: a store of kind Json whose values are JSON-representable, saved and
\* then loaded with kind Json, comes back with the same keys and values, the
\* numbers as float64.
C2_JSONRoundTrip ==
    ( /\ ret.op = "LoadConfigFile"
      /\ ret.saved
      /\ ret.was = Json
      /\ ret.t = Json
      /\ \A k \in Present(ret.pre) : ret.pre[k].kind \in JSONKinds )
    => (ret.err = "nil" /\ Config = DecodeJSON(EncodeJSON(ret.pre)))

\* C7: on a store created with an unrecognized ConfigType the file is decoded
\* as JSON, every SaveFile that succeeds writes the JSON document of the map,
\* and the recorded Type is Json after a load of an existing file or a save.
C7_UnrecognizedIsJSON ==
    asked \notin {Json, Line} =>
        /\ (ret.op = "LoadConfigFile" /\ ret.t = asked /\ disk.exists)
              => (Type = Json /\ Config = parseFileJSON(disk.data).m)
        /\ (ret.op = "SaveFile" /\ ret.err = "nil")
              => (Type = Json /\ (~ret.io => disk.data = <<JSONChunk(Config)>>))

\* C9: a SaveFile one of whose system calls failed returns an error, and the
\* map is as the SaveFile found it.
C9_SaveSurfacesFailures ==
    ret.op = "SaveFile" => ((ret.io => ret.err # "nil") /\ Config = ret.pre)

---------------------------------------------------------------------------
(* Claims on concurrent callers (SpecConc, SpecRace) *)

\* data holds an entry for key k with value v
HasEntry(data, k, v) ==
    \E i \in DOMAIN data :
        \/ data[i].c = "line" /\ data[i].k = k /\ v.kind \in LineKinds /\ data[i].t = Sprint(v)
        \/ data[i].c = "json" /\ data[i].doc[k] = ToJSON(v)

\* every entry of data is an entry of a key of c
OnlyEntriesOf(data, c) ==
    \A i \in DOMAIN data :
        \/ data[i].c = "line" /\ data[i].k \in Present(c)
        \/ data[i].c = "json" /\ (\A k \in Keys \ Present(c) : data[i].doc[k] = JAbsent)

\* data is what writeFileLine writes for c: one line per key of a written
\* kind, in some order
IsLineEncoding(data, c) ==
    LET ks == {k \in Present(c) : c[k].kind \in LineKinds}
    IN /\ Len(data) = Cardinality(ks)
       /\ {data[i] : i \in DOMAIN data} = {LineChunk(k, c[k]) : k \in ks}

IsEncoding(data, c) == IsLineEncoding(data, c) \/ data = <<JSONChunk(c)>>

C8_SaveUnderLock ==
    /\ [][\A p \in Callers :
            (pc[p] = "idle" /\ pc'[p] = "created")
                => \A q \in Callers \ {p} : ~(mu = q /\ pc[q] \in {"line", "json"})]_vars
    /\ []((Idle /\ calls.save > 0) => \E c \in hist : IsEncoding(disk.data, c))

====
